---- MODULE Spec2Model ----
(***************************************************************************)
(* Model of the ziptrader-backtest pipeline:                               *)
(*   - main.py: process_all, process_single_video, cleanup_media_files     *)
(*   - caption_analyzer.py: analyze_text, save_analysis_to_db              *)
(*   - setup_database.py: the analysis_results schema                      *)
(* Three specifications share the variables:                               *)
(*   Spec         the orchestrator and its worker pool                     *)
(*   SpecAnalyze  one call of analyze_text, company by company             *)
(*   SpecSave     a sequence of save_analysis_to_db calls                  *)
(***************************************************************************)
EXTENDS Integers, Sequences, FiniteSets, TLC

VARIABLES
    \* ---- main.py
    runPc,        \* position of process_all
    numVideos,    \* len(video_details_list)
    task,         \* task[i]: state of the task submitted for video i
    cleanups,     \* number of times cleanup_media_files has run
    log,          \* set of log entries written so far
    \* ---- storage
    table,        \* rows of analysis_results
    lastSave,     \* lastSave[v]: payload of the last save of v that committed
    \* ---- analyze_text
    aPc,          \* position of analyze_text
    text,         \* the transcript: a sequence of sentences
    registry,     \* the companies table: a sequence of companies, or Unreadable
    ci,           \* index of the next company of the loop
    mainSummary,  \* main_summary
    stocks,       \* stock_analysis_results
    trace,        \* trace[i]: what the iteration of company i computed and called
    calls,        \* collaborator calls made by this analyze_text call
    \* ---- _get_numerical_sentiment
    scoreIn,      \* the classifier result a mention is scored from
    scoreOut,     \* the sentiment of the mention, once computed
    \* ---- cleanup_media_files
    downloadDir,  \* DOWNLOAD_DIR, as a path relative to the working directory
    files,        \* the files on disk: [dir, stem, ext]
    captured,     \* the videos get_captions_only has been called for
    cleanPc       \* position of the run around cleanup_media_files

vars == <<runPc, numVideos, task, cleanups, log, table, lastSave,
          aPc, text, registry, ci, mainSummary, stocks, trace, calls,
          scoreIn, scoreOut, downloadDir, files, captured, cleanPc>>

pipeVars == <<runPc, numVideos, task, cleanups>>
anaVars  == <<aPc, text, registry, ci, mainSummary, stocks, trace, calls>>
auxVars  == <<scoreIn, scoreOut, downloadDir, files, captured, cleanPc>>

(***************************************************************************)
(* Bounds and program constants                                            *)
(***************************************************************************)
MaxVideos == 6
MAX_WORKERS == 5

Active   == {"Downloading", "Analyzing", "Saving"}
Terminal == {"Done", "Skipped", "Failed"}

(***************************************************************************)
(* Storage: analysis_results and save_analysis_to_db                       *)
(***************************************************************************)
MaxVideoIds == 2
VideoIds == 1..MaxVideoIds

\* publish_date as the collaborator gives it: the digit groups of a compact
\* YYYYMMDD string (compact = TRUE), or a string that is not of that shape.
NotCompact == [compact |-> FALSE, y |-> 0, m |-> 0, d |-> 0]
RawDates == { [compact |-> TRUE, y |-> 2024, m |-> 1, d |-> 31],
              [compact |-> TRUE, y |-> 2023, m |-> 12, d |-> 5],
              [compact |-> TRUE, y |-> 2023, m |-> 2, d |-> 29],
              NotCompact }

DaysIn(y, m) ==
    IF m \in {4, 6, 9, 11} THEN 30
    ELSE IF m = 2 THEN (IF y % 4 = 0 /\ (y % 100 # 0 \/ y % 400 = 0) THEN 29 ELSE 28)
    ELSE 31

\* datetime.strptime(publish_date, "%Y%m%d"): TRUE when it raises ValueError.
StrptimeRaises(raw) ==
    \/ ~raw.compact
    \/ raw.m \notin 1..12
    \/ raw.d \notin 1..DaysIn(raw.y, raw.m)

\* .strftime("%Y-%m-%d") of the parsed date.
FormatDate(raw) == <<raw.y, "-", raw.m, "-", raw.d>>

\* ",".join(tickers_found)
RECURSIVE JoinComma(_)
JoinComma(s) ==
    IF Len(s) = 0 THEN <<>>
    ELSE IF Len(s) = 1 THEN <<s[1]>>
    ELSE <<s[1], ",">> \o JoinComma(Tail(s))

TickersFound(analysis) == [k \in 1..Len(analysis.stocks) |-> analysis.stocks[k].stock_name]

\* A result of the sentiment collaborator: it raises, returns an empty list,
\* or returns a one-element list [{label, score}]; score is in 1/100000ths.
SentRaise == [kind |-> "raise", label |-> "", score |-> 0]
SentEmpty == [kind |-> "empty", label |-> "", score |-> 0]
SentOk(label, score) == [kind |-> "ok", label |-> label, score |-> score]

\* str.upper() on the labels the classifier is known to give.
Upper(label) ==
    CASE label = "Positive" -> "POSITIVE"
      [] label = "Negative" -> "NEGATIVE"
      [] label = "Neutral"  -> "NEUTRAL"
      [] OTHER -> label

\* main_sentiment_label of save_analysis_to_db.
MainSentimentLabel(summary_text, sres) ==
    IF summary_text = "" THEN "NEUTRAL"
    ELSE IF sres.kind # "ok" THEN "NEUTRAL"
    ELSE Upper(sres.label)

\* What the sentiment step of save_analysis_to_db logs.
MainSentimentLog(video_id, summary_text, sres) ==
    IF summary_text = "" THEN {}
    ELSE IF sres.kind = "empty" THEN {<<"warning", "save:no-sentiment", video_id>>}
    ELSE IF sres.kind = "raise" THEN {<<"error", "save:sentiment-failed", video_id>>}
    ELSE {}

\* INSERT OR REPLACE into a table whose schema is plain (no key): a new row.
InsertNoKey(tbl, row) == tbl \cup {row}

\* INSERT OR REPLACE INTO analysis_results: video_id is the PRIMARY KEY, so the
\* row in conflict is deleted and the new one inserted.
InsertOrReplace(tbl, row) == {r \in tbl : r.video_id # row.video_id} \cup {row}

\* A row whose label is left at its default when no stock was found.
SaveRowNeutralWithoutStocks(video_id, publish_date, analysis, env) ==
    [video_id      |-> video_id,
     tickers       |-> JoinComma(TickersFound(analysis)),
     sentiment     |-> IF analysis.stocks = <<>> THEN "NEUTRAL"
                       ELSE MainSentimentLabel(analysis.summary, env.sentiment),
     summary       |-> analysis.summary,
     analysis_date |-> env.today,
     publish_date  |-> FormatDate(publish_date)]

\* The row save_analysis_to_db builds.
SaveRow(video_id, publish_date, analysis, env) ==
    [video_id      |-> video_id,
     tickers       |-> JoinComma(TickersFound(analysis)),
     sentiment     |-> MainSentimentLabel(analysis.summary, env.sentiment),
     summary       |-> analysis.summary,
     analysis_date |-> env.today,
     publish_date  |-> FormatDate(publish_date)]

\* A save that writes the row before it parses the date, and so leaves a row
\* behind when the date does not parse.
SaveWritesBeforeParse(tbl, video_id, publish_date, analysis, env) ==
    IF env.connect = "error" \/ env.write = "error"
    THEN [table |-> tbl, committed |-> FALSE,
          log |-> {<<"error", "save:database", video_id>>}]
    ELSE LET slog == MainSentimentLog(video_id, analysis.summary, env.sentiment)
             tbl2 == InsertOrReplace(tbl, SaveRow(video_id, publish_date, analysis, env))
         IN  IF StrptimeRaises(publish_date)
             THEN [table |-> tbl2, committed |-> FALSE,
                   log |-> slog \cup {<<"error", "save:unexpected", video_id>>}]
             ELSE [table |-> tbl2, committed |-> TRUE, log |-> slog]

\* save_analysis_to_db under the collaborator results env
\* [connect, sentiment, write, today]: the new table, whether the row was
\* committed, and the log entries written. It returns None on every path.
SaveAnalysisToDb(tbl, video_id, publish_date, analysis, env) ==
    IF env.connect = "error"
    THEN [table |-> tbl, committed |-> FALSE,
          log |-> {<<"error", "save:database", video_id>>}]
    ELSE LET slog == MainSentimentLog(video_id, analysis.summary, env.sentiment) IN
         IF StrptimeRaises(publish_date)
         THEN [table |-> tbl, committed |-> FALSE,
               log |-> slog \cup {<<"error", "save:unexpected", video_id>>}]
         ELSE IF env.write = "error"
         THEN [table |-> tbl, committed |-> FALSE,
               log |-> slog \cup {<<"error", "save:database", video_id>>}]
         ELSE [table |-> InsertOrReplace(tbl, SaveRow(video_id, publish_date, analysis, env)),
               committed |-> TRUE, log |-> slog]

(***************************************************************************)
(* main.py: process_all and process_single_video                           *)
(***************************************************************************)
\* The analysis a task hands to save_analysis_to_db, and the collaborator
\* results of that save, as far as the orchestrator depends on them.
TaskAnalysis == [summary |-> "", stocks |-> <<>>]
TaskDate == [compact |-> TRUE, y |-> 2024, m |-> 1, d |-> 31]
TaskSaveEnv(connect, write) ==
    [connect |-> connect, sentiment |-> SentEmpty, write |-> write, today |-> 1]

\* get_video_list: yt-dlp's exit status and the number of JSON lines it
\* printed. check=True raises on a failed exit; with no output,
\* "".split("\n") is [""] and json.loads("") raises.
GetVideoList(rc, lines) ==
    IF rc # "ok" \/ lines = 0
    THEN [raised |-> TRUE, count |-> 0]
    ELSE [raised |-> FALSE, count |-> lines]

Submitted == Len(task)
Tasks == 1..Len(task)
ActiveTasks == {i \in Tasks : task[i] \in Active}
AllTerminal == \A i \in Tasks : task[i] \in Terminal

\* A pool that starts a queued task whenever one is queued.
UnboundedPool == TRUE

\* A pool whose worker is lost when the task it runs fails.
WorkerLostOnFailure ==
    Cardinality({i \in Tasks : task[i] \in Active \cup {"Failed"}}) < MAX_WORKERS

\* ThreadPoolExecutor(max_workers=MAX_WORKERS): a queued work item is taken
\* only by one of at most MAX_WORKERS threads, each running one item at a time.
PoolHasIdleWorker == Cardinality(ActiveTasks) < MAX_WORKERS

\* A handler that, on the error of one task, also cancels the queued ones.
CancelQueued(t, i) ==
    [j \in DOMAIN t |-> IF j = i \/ t[j] = "Pending" THEN "Failed" ELSE t[j]]

\* A handler that puts the task whose step raised back on the queue.
RequeueTask(t, i) == [t EXCEPT ![i] = "Pending"]

\* process_single_video, lines 60-61: the error of a task is caught in the
\* task itself and logged; only that task ends, as Failed.
FailTask(t, i) == [t EXCEPT ![i] = "Failed"]

\* A check that logs the missing store and goes on to the video list.
GoOnWithoutStore == "fetch"

\* process_all, lines 92-93: the missing store is logged and process_all
\* returns.
AfterMissingStore == "aborted"

\* process_all, lines 91-93: the store must exist.
CheckStore ==
    /\ runPc = "start"
    /\ \E exists \in BOOLEAN :
         IF exists
         THEN /\ runPc' = "fetch"
              /\ log' = log
         ELSE /\ runPc' = AfterMissingStore
              /\ log' = log \cup {<<"error", "run:no-database", 0>>}
    /\ UNCHANGED <<numVideos, task, cleanups, table, lastSave>>
    /\ UNCHANGED anaVars
    /\ UNCHANGED auxVars

\* process_all, lines 95-104: fetch the list; an empty list ends the run.
FetchVideoList ==
    /\ runPc = "fetch"
    /\ \E rc \in {"ok", "error"}, lines \in 0..MaxVideos :
         LET r == GetVideoList(rc, lines) IN
         IF r.raised
         THEN /\ runPc' = "raised"
              /\ UNCHANGED <<numVideos, log>>
         ELSE IF r.count = 0
         THEN /\ runPc' = "done"
              /\ numVideos' = 0
              /\ log' = log \cup {<<"info", "run:no-videos", 0>>}
         ELSE /\ runPc' = "pool"
              /\ numVideos' = r.count
              /\ log' = log
    /\ UNCHANGED <<task, cleanups, table, lastSave>>
    /\ UNCHANGED anaVars
    /\ UNCHANGED auxVars

\* process_all, lines 108-111: one executor.submit per video, in list order.
Submit ==
    /\ runPc = "pool"
    /\ Submitted < numVideos
    /\ task' = Append(task, "Pending")
    /\ UNCHANGED <<runPc, numVideos, cleanups, log, table, lastSave>>
    /\ UNCHANGED anaVars
    /\ UNCHANGED auxVars

\* The queue of the executor is first in, first out.
NextQueued(i) ==
    /\ i \in Tasks
    /\ task[i] = "Pending"
    /\ \A j \in 1..(i - 1) : task[j] # "Pending"

\* process_single_video, lines 36-44, on a worker thread: the metadata check.
StartTask(i) ==
    /\ runPc = "pool"
    /\ NextQueued(i)
    /\ PoolHasIdleWorker
    /\ \E has_id \in BOOLEAN, has_date \in BOOLEAN :
         IF has_id /\ has_date
         THEN /\ task' = [task EXCEPT ![i] = "Downloading"]
              /\ log' = log
         ELSE /\ task' = [task EXCEPT ![i] = "Skipped"]
              /\ log' = log \cup {<<"warning", "task:skipped", i>>}
    /\ UNCHANGED <<runPc, numVideos, cleanups, table, lastSave>>
    /\ UNCHANGED anaVars
    /\ UNCHANGED auxVars

\* process_single_video, lines 45-51 and 60-61: get_captions_only returns a
\* transcript, returns nothing, or raises.
Download(i) ==
    /\ i \in Tasks
    /\ task[i] = "Downloading"
    /\ \E captions \in {"text", "none", "raise"} :
         CASE captions = "text" ->
                /\ task' = [task EXCEPT ![i] = "Analyzing"]
                /\ log' = log
           [] captions = "none" ->
                /\ task' = [task EXCEPT ![i] = "Skipped"]
                /\ log' = log \cup {<<"warning", "task:skipped", i>>}
           [] captions = "raise" ->
                /\ task' = FailTask(task, i)
                /\ log' = log \cup {<<"error", "task:failed", i>>}
    /\ UNCHANGED <<runPc, numVideos, cleanups, table, lastSave>>
    /\ UNCHANGED anaVars
    /\ UNCHANGED auxVars

\* process_single_video, lines 52-55 and 60-61: analyze_text and the printing
\* of its result return or raise.
Analyze(i) ==
    /\ i \in Tasks
    /\ task[i] = "Analyzing"
    /\ \E analysis \in {"ok", "raise"} :
         IF analysis = "ok"
         THEN /\ task' = [task EXCEPT ![i] = "Saving"]
              /\ log' = log
         ELSE /\ task' = FailTask(task, i)
              /\ log' = log \cup {<<"error", "task:failed", i>>}
    /\ UNCHANGED <<runPc, numVideos, cleanups, table, lastSave>>
    /\ UNCHANGED anaVars
    /\ UNCHANGED auxVars

\* The state of a task whose save_analysis_to_db call has returned: the call
\* returns None whether or not the row was committed.
AfterSave(committed) == "Done"

\* process_single_video, lines 57-58: save_analysis_to_db, then the "saved"
\* log line.
Save(i) ==
    /\ i \in Tasks
    /\ task[i] = "Saving"
    /\ \E connect \in {"ok", "error"}, write \in {"ok", "error"} :
         LET r == SaveAnalysisToDb(table, i, TaskDate, TaskAnalysis,
                                   TaskSaveEnv(connect, write)) IN
         /\ table' = r.table
         /\ task' = [task EXCEPT ![i] = AfterSave(r.committed)]
         /\ log' = log \cup r.log \cup {<<"info", "task:saved", i>>}
    /\ UNCHANGED <<runPc, numVideos, cleanups, lastSave>>
    /\ UNCHANGED anaVars
    /\ UNCHANGED auxVars

\* A drain that does not wait for the futures.
DrainedEarly == Submitted = numVideos

\* process_all, lines 113-118 and the end of the with block: as_completed has
\* yielded every future and the executor has shut down.
PoolDrained == Submitted = numVideos /\ AllTerminal

\* process_all, lines 106-120: leave the with block.
DrainPool ==
    /\ runPc = "pool"
    /\ PoolDrained
    /\ runPc' = "cleanup"
    /\ log' = log \cup {<<"info", "run:all-processed", 0>>}
    /\ UNCHANGED <<numVideos, task, cleanups, table, lastSave>>
    /\ UNCHANGED anaVars
    /\ UNCHANGED auxVars

\* process_all, line 123: cleanup_media_files.
Cleanup ==
    /\ runPc = "cleanup"
    /\ cleanups' = cleanups + 1
    /\ runPc' = "done"
    /\ UNCHANGED <<numVideos, task, log, table, lastSave>>
    /\ UNCHANGED anaVars
    /\ UNCHANGED auxVars

AnaIdle ==
    /\ aPc = "idle" /\ text = <<>> /\ registry = <<>> /\ ci = 0
    /\ mainSummary = "" /\ stocks = <<>> /\ trace = <<>> /\ calls = <<>>

FilesIdle ==
    /\ downloadDir = "downloads" /\ files = {} /\ captured = {} /\ cleanPc = "idle"

AuxIdle ==
    /\ scoreIn = <<>> /\ scoreOut = <<>>
    /\ FilesIdle

Init ==
    /\ runPc = "start"
    /\ numVideos = 0
    /\ task = <<>>
    /\ cleanups = 0
    /\ log = {}
    /\ table = {}
    /\ lastSave = <<>>
    /\ AnaIdle
    /\ AuxIdle

Next ==
    \/ CheckStore
    \/ FetchVideoList
    \/ Submit
    \/ \E i \in 1..MaxVideos : StartTask(i)
    \/ \E i \in 1..MaxVideos : Download(i)
    \/ \E i \in 1..MaxVideos : Analyze(i)
    \/ \E i \in 1..MaxVideos : Save(i)
    \/ DrainPool
    \/ Cleanup

Spec == Init /\ [][Next]_vars

\* Every collaborator call returns or raises, and the pool runs the work it
\* was given: a step that can be taken is taken sooner or later.
FairSpec == Spec /\ WF_vars(Next)

(***************************************************************************)
(* Properties of the orchestrator (specification Spec)                     *)
(***************************************************************************)
HasRow(i) == \E r \in table : r.video_id = i

\* C1: in a run that dispatched tasks, cleanup_media_files runs at most once,
\* it has not started while a video is unsubmitted or a task is not yet Done,
\* Skipped or Failed, a run that dispatched tasks never ends any other way
\* than through cleanup, and at the end of such a run cleanup has run exactly
\* once.
CleanupOnceAfterDrain ==
    /\ cleanups <= 1
    /\ (runPc = "cleanup" \/ cleanups > 0) => (Submitted = numVideos /\ AllTerminal)
    /\ Submitted > 0 => runPc \in {"pool", "cleanup", "done"}
    /\ (runPc = "done" /\ Submitted > 0) => cleanups = 1
    /\ runPc # "done" => cleanups = 0

\* C1 witness: a finished run of MaxVideos tasks with every kind of outcome
\* (Done, Skipped, Failed) after which cleanup has run.
CleanupOnceWitness ==
    /\ runPc = "done" /\ cleanups = 1 /\ Submitted = MaxVideos
    /\ \E i, j, k \in Tasks :
         task[i] = "Done" /\ task[j] = "Skipped" /\ task[k] = "Failed"

\* What the log and the store hold of task i's own results decides its state.
OwnOutcome(i) ==
    /\ task[i] = "Done"    <=> <<"info", "task:saved", i>> \in log
    /\ task[i] = "Skipped" <=> <<"warning", "task:skipped", i>> \in log
    /\ task[i] = "Failed"  <=> <<"error", "task:failed", i>> \in log
    /\ HasRow(i) => task[i] = "Done"

\* C2: pool isolation. Every step changes the state of at most one task, so
\* the failure or the skip of a task changes no sibling; a task is never
\* cancelled: its terminal state is the one its own results (as logged and
\* stored under its own id) give, whatever its siblings did; and the drained
\* pool holds every task in a terminal state.
PoolIsolation ==
    /\ [](\A i \in Tasks : OwnOutcome(i))
    /\ [][\A i \in Tasks :
            task'[i] # task[i] =>
               \A j \in Tasks \ {i} : j \in DOMAIN task' /\ task'[j] = task[j]]_vars
    /\ [](runPc \in {"cleanup", "done"} => AllTerminal)

\* C2 witness: the run of the spec's example, scaled to MaxVideos tasks: task
\* 3 failed on an unexpected error, the storage write of the last task failed,
\* and every other task is Done with its row or Skipped.
PoolIsolationWitness ==
    /\ runPc = "done" /\ Submitted = MaxVideos
    /\ task[3] = "Failed"
    /\ task[MaxVideos] = "Done" /\ ~HasRow(MaxVideos)
    /\ task[1] = "Skipped"
    /\ \A i \in Tasks \ {1, 3, MaxVideos} : task[i] = "Done" /\ HasRow(i)

\* C3: at every moment at most MAX_WORKERS tasks are Downloading, Analyzing or
\* Saving.
PoolBound == Cardinality(ActiveTasks) <= MAX_WORKERS

\* C3 witness: all MAX_WORKERS workers are busy, in all three active states,
\* while one more task is queued and has to wait.
PoolBoundWitness ==
    /\ Cardinality(ActiveTasks) = MAX_WORKERS
    /\ \E i \in Tasks : task[i] = "Pending"
    /\ \A st \in Active : \E i \in Tasks : task[i] = st

\* C4: a task is Done only if its row was written; a task whose storage write
\* failed is not Done.
DoneOnlyIfRowWritten == \A i \in Tasks : task[i] = "Done" => HasRow(i)

(***************************************************************************)
(* SpecSave: a sequence of save_analysis_to_db calls on one store          *)
(***************************************************************************)
Mention(ticker) == [stock_name |-> ticker, sentiment |-> 0, explanation |-> "E"]

\* The (analysis, publish_date) pairs the calls are made with: two that differ
\* in every field, an empty analysis, two dates that do not parse, and a
\* summary met before with no stocks.
SaveInputs ==
    { [analysis |-> [summary |-> "S1", stocks |-> <<Mention("AAPL"), Mention("TSLA")>>],
       publish_date |-> [compact |-> TRUE, y |-> 2024, m |-> 1, d |-> 31]],
      [analysis |-> [summary |-> "S2", stocks |-> <<Mention("TSLA")>>],
       publish_date |-> [compact |-> TRUE, y |-> 2023, m |-> 12, d |-> 5]],
      [analysis |-> [summary |-> "", stocks |-> <<>>],
       publish_date |-> [compact |-> TRUE, y |-> 2024, m |-> 1, d |-> 31]],
      [analysis |-> [summary |-> "S1", stocks |-> <<Mention("AAPL"), Mention("TSLA")>>],
       publish_date |-> [compact |-> TRUE, y |-> 2023, m |-> 2, d |-> 29]],
      [analysis |-> [summary |-> "S2", stocks |-> <<Mention("TSLA")>>],
       publish_date |-> NotCompact],
      [analysis |-> [summary |-> "S1", stocks |-> <<>>],
       publish_date |-> [compact |-> TRUE, y |-> 2023, m |-> 12, d |-> 5]] }

\* The collaborator results of a call: the store connects or not, the
\* classifier answers, raises or returns nothing, the write commits or not.
SaveEnvs ==
    { [connect |-> "ok", sentiment |-> SentOk("Positive", 90000), write |-> "ok", today |-> 1],
      [connect |-> "ok", sentiment |-> SentOk("Negative", 50004), write |-> "ok", today |-> 2],
      [connect |-> "ok", sentiment |-> SentRaise, write |-> "ok", today |-> 2],
      [connect |-> "ok", sentiment |-> SentEmpty, write |-> "ok", today |-> 1],
      [connect |-> "error", sentiment |-> SentOk("Positive", 90000), write |-> "ok", today |-> 1],
      [connect |-> "ok", sentiment |-> SentOk("Negative", 50004), write |-> "error", today |-> 2] }

\* One call save_analysis_to_db(video_id, publish_date, analysis, db_file).
\* lastSave remembers the arguments of the last call that committed; log holds
\* what this call logged.
SaveCall ==
    \E v \in VideoIds, in \in SaveInputs, env \in SaveEnvs :
       LET r == SaveAnalysisToDb(table, v, in.publish_date, in.analysis, env) IN
       /\ table' = r.table
       /\ log' = r.log
       /\ lastSave' = IF r.committed
                      THEN [lastSave EXCEPT ![v] =
                              <<[analysis |-> in.analysis,
                                 publish_date |-> in.publish_date, env |-> env]>>]
                      ELSE lastSave
       /\ UNCHANGED pipeVars
       /\ UNCHANGED anaVars
       /\ UNCHANGED auxVars

InitSave ==
    /\ runPc = "idle" /\ numVideos = 0 /\ task = <<>> /\ cleanups = 0
    /\ log = {}
    /\ table = {}
    /\ lastSave = [v \in VideoIds |-> <<>>]
    /\ AnaIdle
    /\ AuxIdle

NextSave == SaveCall

SpecSave == InitSave /\ [][NextSave]_vars

RowsOf(v) == {r \in table : r.video_id = v}

\* C5: after any sequence of saves the table holds at most one row per
\* video_id; a video_id no save has committed for has no row; and the row of a
\* video_id is, field by field, the row of the last save committed for it
\* (whatever was saved before, and whatever is saved for other video_ids).
IdempotentPersistence ==
    \A v \in VideoIds :
       /\ Cardinality(RowsOf(v)) <= 1
       /\ lastSave[v] = <<>> => RowsOf(v) = {}
       /\ lastSave[v] # <<>> =>
            LET p == lastSave[v][1] IN
            \E r \in RowsOf(v) :
               /\ r.tickers = JoinComma(TickersFound(p.analysis))
               /\ r.summary = p.analysis.summary
               /\ r.sentiment = MainSentimentLabel(p.analysis.summary, p.env.sentiment)
               /\ r.analysis_date = p.env.today
               /\ r.publish_date = FormatDate(p.publish_date)

\* C5 witness: video 1 has been saved twice with payloads that differ in every
\* field (the row is the second one's), and video 2 has a row of its own.
IdempotentPersistenceWitness ==
    /\ \E r \in RowsOf(1) :
         /\ r.summary = "S2" /\ r.tickers = <<"TSLA">> /\ r.sentiment = "NEGATIVE"
         /\ r.analysis_date = 2 /\ r.publish_date = <<2023, "-", 12, "-", 5>>
    /\ \E r \in RowsOf(2) :
         /\ r.summary = "S1" /\ r.tickers = <<"AAPL", ",", "TSLA">>
         /\ r.sentiment = "POSITIVE" /\ r.analysis_date = 1
    /\ log = {<<"error", "save:database", 1>>}

(***************************************************************************)
(* caption_analyzer.py: analyze_text                                       *)
(***************************************************************************)
MaxCompanies == 2
SHORT_TEXT == 100

\* A sentence is the sequence of its blank-separated tokens, case folded; a
\* transcript is the sequence of sentences re.split cuts it into. Tokens are
\* words, but for "--", which holds no word character.
TokLen(tok) ==
    CASE tok = "w90" -> 90
      [] tok = "acme" -> 4
      [] tok = "rose" -> 4
      [] tok = "xyz" -> 3
      [] tok = "qq" -> 2
      [] tok = "--" -> 2
      [] OTHER -> 3
IsWord(tok) == tok # "--"

Transcripts ==
    { <<>>,
      << <<>> >>,
      << <<"xyz", "rose">>, <<"acme", "w90", "rose">> >>,
      << <<"xyz", "w90", "rose">>, <<"--">> >>,
      << <<"acme", "w90", "rose">>, <<"qq", "rose">> >>,
      << <<"rose", "--">>, <<"--">>, <<"tsla", "w90", "--">> >> }

\* A row of the companies table. In name, a word the suffix pattern matches is
\* "inc", "llc", "corp" or "corporation"; blob marks a name stored as bytes.
LegalSuffixes == {"inc", "llc", "corp", "corporation"}
Companies ==
    { [ticker |-> "xyz", name |-> <<"acme", "inc">>, blob |-> FALSE],
      [ticker |-> "qq",  name |-> <<"inc">>, blob |-> FALSE],
      [ticker |-> "bad", name |-> <<>>, blob |-> TRUE] }

Registries == UNION { [1..n -> Companies] : n \in 0..MaxCompanies }

\* not text or not text.strip()
IsBlank(t) == \A k \in 1..Len(t) : t[k] = <<>>

RECURSIVE SumLen(_)
SumLen(toks) == IF toks = <<>> THEN 0 ELSE TokLen(Head(toks)) + SumLen(Tail(toks))

\* len(s.strip()): the tokens and the blanks between them.
SentenceLen(snt) == IF snt = <<>> THEN 0 ELSE SumLen(snt) + Len(snt) - 1

RECURSIVE StripLeft(_)
StripLeft(toks) ==
    IF toks # <<>> /\ Head(toks) = "" THEN StripLeft(Tail(toks)) ELSE toks
RECURSIVE StripRight(_)
StripRight(toks) ==
    IF toks # <<>> /\ toks[Len(toks)] = ""
    THEN StripRight(SubSeq(toks, 1, Len(toks) - 1)) ELSE toks

\* clean_name: each legal-suffix word is replaced by the empty string and the
\* result stripped. A suffix removed between two words leaves two blanks,
\* here an empty token.
CleanName(name) ==
    StripRight(StripLeft([k \in 1..Len(name) |->
                             IF name[k] \in LegalSuffixes THEN "" ELSE name[k]]))

\* re.search(r'\b' + ticker + r'\b', s, IGNORECASE)
TickerMatches(ticker, snt) == \E k \in 1..Len(snt) : snt[k] = ticker

\* re.search(r'\b' + clean_name + r'\b', s, IGNORECASE). For the empty
\* clean_name the pattern is r'\b\b', found at any word boundary: in any
\* sentence that holds a word character.
NameMatches(clean, snt) ==
    IF clean = <<>>
    THEN \E k \in 1..Len(snt) : IsWord(snt[k])
    ELSE \E k \in 1..(Len(snt) - Len(clean) + 1) :
            SubSeq(snt, k, k + Len(clean) - 1) = clean

RECURSIVE SelectMatching(_, _, _)
SelectMatching(sentences, ticker, clean) ==
    IF sentences = <<>> THEN <<>>
    ELSE (IF TickerMatches(ticker, Head(sentences)) \/ NameMatches(clean, Head(sentences))
          THEN <<Head(sentences)>> ELSE <<>>)
         \o SelectMatching(Tail(sentences), ticker, clean)

\* mentions, line 61.
Mentions(sentences, company) ==
    SelectMatching(sentences, company.ticker, CleanName(company.name))

RECURSIVE SumSentenceLen(_)
SumSentenceLen(ms) ==
    IF ms = <<>> THEN 0 ELSE SentenceLen(Head(ms)) + SumSentenceLen(Tail(ms))

\* len(context_block) for context_block = ". ".join(mentions).strip()
ContextLen(ms) == IF ms = <<>> THEN 0 ELSE SumSentenceLen(ms) + 2 * (Len(ms) - 1)

\* An explanation: nothing, the context block itself, or its summary.
NoExplanation == [kind |-> "empty", of |-> <<>>]
RawBlock(ms) == [kind |-> "raw", of |-> ms]
SummaryOf(ms) == [kind |-> "summary", of |-> ms]

\* A handler that gives up the company when the summarizer raises.
NoFallback(ms) == NoExplanation

\* Line 81: the summarizer raised, the explanation is the context block.
FallbackExplanation(ms) == RawBlock(ms)

\* A test that sends a block of exactly SHORT_TEXT characters past the
\* summarizer too.
SummarizerCalledAbove(ms) == ContextLen(ms) > SHORT_TEXT

\* Lines 71-73: the summarizer is called unless len(context_block) < 100.
SummarizerCalled(ms) == ContextLen(ms) >= SHORT_TEXT

\* Lines 70-81: the explanation of a context block, given what the summarizer
\* does when called ("ok", "empty": a falsy result, "raise").
Explanation(ms, sumRes) ==
    IF ~SummarizerCalled(ms) THEN RawBlock(ms)
    ELSE CASE sumRes = "ok" -> SummaryOf(ms)
           [] sumRes = "empty" -> NoExplanation
           [] OTHER -> FallbackExplanation(ms)

\* round(x, 4) of a value in 1/100000ths: to the nearest multiple of 10. For
\* a value halfway between two multiples see Round4Set; the scores of
\* SentimentResults are not halfway.
Round4(x) ==
    LET a == IF x < 0 THEN -x ELSE x
        q == a \div 10
        r == a % 10
        up == IF r > 5 \/ (r = 5 /\ q % 2 = 1) THEN q + 1 ELSE q
    IN  (IF x < 0 THEN -1 ELSE 1) * up * 10

\* round(x, 4) of the float nearest to x/100000: when x is halfway between two
\* multiples of 10 the float lies a little under or a little over it, and the
\* result is the multiple on that side (round(0.00005, 4) is 0.0001,
\* round(0.00015, 4) is 0.0001).
Round4Set(x) ==
    LET a == IF x < 0 THEN -x ELSE x
        sgn == IF x < 0 THEN -1 ELSE 1
    IN  IF a % 10 = 5
        THEN {sgn * (a - 5), sgn * (a + 5)}
        ELSE {Round4(x)}

\* The default of line 17, 1.0, in 1/100000ths.
ScoreUnit == 100000

\* A conversion that keeps the sign of the label and drops the confidence.
SignOnly(result) ==
    LET label == IF "label" \in DOMAIN result THEN result.label ELSE "Neutral"
    IN  IF label = "Positive" THEN ScoreUnit
        ELSE IF label = "Negative" THEN -ScoreUnit
        ELSE 0

\* _get_numerical_sentiment: label defaults to 'Neutral' and score to 1.0.
GetNumericalSentiment(result) ==
    LET label == IF "label" \in DOMAIN result THEN result.label ELSE "Neutral"
        score == IF "score" \in DOMAIN result THEN result.score ELSE ScoreUnit
    IN  IF label = "Positive" THEN score
        ELSE IF label = "Negative" THEN -score
        ELSE 0

SummarizerResults == {"ok", "empty", "raise"}
SentimentResults ==
    { SentRaise, SentEmpty, SentOk("Positive", 90000),
      SentOk("Negative", 50004), SentOk("Neutral", 70000) }

\* One iteration of the loop of lines 54-100 for a company, given the results
\* the collaborators give if called: what it computed, called, logged and
\* appended.
CompanyStep(sentences, company, sumRes, sentRes) ==
    LET base == [ticker |-> company.ticker, mentions |-> <<>>, blockLen |-> 0,
                 sum |-> "none", explanation |-> NoExplanation, sent |-> "none",
                 outcome |-> "error", stock |-> <<>>, log |-> {}]
    IN
    IF company.blob
    THEN [base EXCEPT !.log = {<<"error", "analyze:unexpected", company.ticker>>}]
    ELSE
    LET ms == Mentions(sentences, company)
        found == [base EXCEPT !.mentions = ms, !.blockLen = ContextLen(ms)]
    IN
    IF ms = <<>> \/ ContextLen(ms) = 0
    THEN [found EXCEPT !.outcome = "nomatch"]
    ELSE
    LET expl == Explanation(ms, sumRes)
        summed == [found EXCEPT
                     !.sum = IF SummarizerCalled(ms) THEN sumRes ELSE "none",
                     !.explanation = expl,
                     !.log = IF SummarizerCalled(ms) /\ sumRes = "raise"
                             THEN {<<"warning", "analyze:context-summary", company.ticker>>}
                             ELSE {}]
    IN
    IF expl.kind = "empty"
    THEN [summed EXCEPT !.outcome = "dropped"]
    ELSE IF sentRes.kind = "raise"
    THEN [summed EXCEPT !.sent = "raise", !.outcome = "dropped",
            !.log = @ \cup {<<"error", "analyze:sentiment", company.ticker>>}]
    ELSE IF sentRes.kind = "empty"
    THEN [summed EXCEPT !.sent = "empty", !.outcome = "dropped"]
    ELSE [summed EXCEPT !.sent = "ok", !.outcome = "emitted",
            !.stock = <<[stock_name |-> company.ticker,
                         sentiment |-> Round4(GetNumericalSentiment(sentRes)),
                         explanation |-> expl]>>]

\* A handler that answers a failed registry read with an empty registry.
GoOnWithoutRegistry == FALSE

\* Lines 38-40: the registry read failed, return the empty analysis.
ReturnOnRegistryError == TRUE

\* A handler that returns what it has when the main summary fails.
GiveUpOnMainSummaryError == FALSE

\* Lines 46-47: the failure of the main summary is logged and the analysis
\* goes on to the companies.
ContinueAfterMainSummaryError == TRUE

\* A loop that ends at the first company that raises.
AbortLoop(i, n) == n + 1

\* Lines 97-100: the error of a company is logged, the loop continues.
ContinueAfter(i, n) == i + 1

\* A result list built by inserting each record at the front.
PrependStock(stks, stock) == stock \o stks

\* Line 88: stock_analysis_results.append(...), for the record of a company
\* if it has one.
AppendStock(stks, stock) == stks \o stock

NoCalls == [registry |-> 0, regFailed |-> FALSE, summarizer |-> 0, sentiment |-> 0]

\* analyze_text, lines 28-47: the blank check, the registry read and the main
\* summary.
AnalyzeBegin ==
    /\ aPc = "call"
    /\ \E dbRead \in {"ok", "error"}, sumRes \in SummarizerResults :
         IF IsBlank(text)
         THEN /\ aPc' = "returned"
              /\ log' = log \cup {<<"warning", "analyze:empty-transcript", "">>}
              /\ UNCHANGED <<ci, mainSummary, calls>>
         ELSE IF dbRead = "error" /\ ReturnOnRegistryError
         THEN /\ aPc' = "returned"
              /\ log' = log \cup {<<"error", "analyze:database", "">>}
              /\ calls' = [calls EXCEPT !.registry = 1, !.regFailed = TRUE]
              /\ UNCHANGED <<ci, mainSummary>>
         ELSE /\ aPc' = IF sumRes = "raise" /\ ~ContinueAfterMainSummaryError
                        THEN "returned" ELSE "loop"
              /\ ci' = IF dbRead = "error" THEN Len(registry) + 1 ELSE 1
              /\ mainSummary' = IF sumRes = "ok" THEN "summary" ELSE ""
              /\ log' = log \cup
                        (IF sumRes = "raise"
                         THEN {<<"error", "analyze:main-summary", "">>} ELSE {})
                        \cup (IF dbRead = "error"
                              THEN {<<"error", "analyze:database", "">>} ELSE {})
              /\ calls' = [calls EXCEPT !.registry = 1, !.summarizer = 1,
                                        !.regFailed = (dbRead = "error")]
    /\ UNCHANGED <<text, registry, stocks, trace>>
    /\ UNCHANGED <<runPc, numVideos, task, cleanups, table, lastSave>>
    /\ UNCHANGED auxVars

\* analyze_text, lines 54-100: the iteration for company ci.
ProcessCompany ==
    /\ aPc = "loop"
    /\ ci <= Len(registry)
    /\ \E sumRes \in SummarizerResults, sentRes \in SentimentResults :
         LET r == CompanyStep(text, registry[ci], sumRes, sentRes) IN
         /\ trace' = Append(trace, [k \in DOMAIN r \ {"log"} |-> r[k]])
         /\ stocks' = AppendStock(stocks, r.stock)
         /\ log' = log \cup r.log
         /\ calls' = [calls EXCEPT
                        !.summarizer = @ + (IF r.sum = "none" THEN 0 ELSE 1),
                        !.sentiment = @ + (IF r.sent = "none" THEN 0 ELSE 1)]
         /\ ci' = IF r.outcome = "error"
                  THEN ContinueAfter(ci, Len(registry)) ELSE ci + 1
    /\ UNCHANGED <<aPc, text, registry, mainSummary>>
    /\ UNCHANGED <<runPc, numVideos, task, cleanups, table, lastSave>>
    /\ UNCHANGED auxVars

\* analyze_text, lines 102-105: the result is returned.
AnalyzeReturn ==
    /\ aPc = "loop"
    /\ ci > Len(registry)
    /\ aPc' = "returned"
    /\ UNCHANGED <<text, registry, ci, mainSummary, stocks, trace, calls, log>>
    /\ UNCHANGED <<runPc, numVideos, task, cleanups, table, lastSave>>
    /\ UNCHANGED auxVars

\* The value analyze_text returns.
Result == [summary |-> mainSummary, stocks |-> stocks]
EmptyResult == [summary |-> "", stocks |-> <<>>]

InitAnalyze ==
    /\ runPc = "idle" /\ numVideos = 0 /\ task = <<>> /\ cleanups = 0
    /\ log = {} /\ table = {} /\ lastSave = <<>>
    /\ aPc = "call"
    /\ text \in Transcripts
    /\ registry \in Registries
    /\ ci = 0 /\ mainSummary = "" /\ stocks = <<>> /\ trace = <<>>
    /\ calls = NoCalls
    /\ AuxIdle

NextAnalyze == AnalyzeBegin \/ ProcessCompany \/ AnalyzeReturn

SpecAnalyze == InitAnalyze /\ [][NextAnalyze]_vars

(***************************************************************************)
(* Properties of analyze_text (specification SpecAnalyze)                  *)
(***************************************************************************)
Logged(level, site, ticker) == <<level, site, ticker>> \in log

\* C6: whenever the transcript is empty or blank, or the registry read
\* failed, analyze_text returns {summary: "", stocks: []} and has called
\* neither the summarizer nor the classifier; for an empty or blank
\* transcript it has not read the registry either.
FailsSoft ==
    (IsBlank(text) \/ calls.regFailed) =>
       /\ aPc \in {"call", "returned"}
       /\ Result = EmptyResult
       /\ calls.summarizer = 0 /\ calls.sentiment = 0
       /\ IsBlank(text) => calls.registry = 0

\* C6 witness: analyze_text has returned for a transcript with words in it
\* and a registry of companies the read of which failed.
FailsSoftWitness ==
    /\ aPc = "returned" /\ ~IsBlank(text) /\ calls.regFailed
    /\ Len(registry) = MaxCompanies
    /\ Logged("error", "analyze:database", "")

RECURSIVE SelectTicker(_, _)
SelectTicker(sentences, ticker) ==
    IF sentences = <<>> THEN <<>>
    ELSE (IF TickerMatches(ticker, Head(sentences)) THEN <<Head(sentences)>> ELSE <<>>)
         \o SelectTicker(Tail(sentences), ticker)

\* C7: for a company whose name is empty after the legal suffixes are
\* stripped, the mentions are exactly the sentences that hold its ticker as a
\* whole word.
EmptyNameMatchesByTickerOnly ==
    \A i \in DOMAIN trace :
       (~registry[i].blob /\ CleanName(registry[i].name) = <<>>) =>
          trace[i].mentions = SelectTicker(text, registry[i].ticker)

RECURSIVE EmittedOf(_)
EmittedOf(tr) == IF tr = <<>> THEN <<>> ELSE Head(tr).stock \o EmittedOf(Tail(tr))

\* C8: an unexpected error in the iteration of one company is logged with its
\* ticker and skips that company only: the mentions collected so far are
\* kept, the iterations follow the registry one by one, and once analyze_text
\* has returned from the loop every company of the registry has had its
\* iteration and the result holds the mentions of all those that emitted one.
CompanyIsolation ==
    /\ \A i \in DOMAIN trace :
          /\ trace[i].ticker = registry[i].ticker
          /\ trace[i].outcome = "error" =>
                Logged("error", "analyze:unexpected", registry[i].ticker)
    /\ stocks = EmittedOf(trace)
    /\ aPc = "loop" => Len(trace) = ci - 1
    /\ (aPc = "returned" /\ calls.registry = 1 /\ ~calls.regFailed) =>
          /\ Len(trace) = Len(registry)
          /\ Result.stocks = EmittedOf(trace)

\* C8 witness: the first company of the registry raised, the company after
\* it was still processed and its mention is in the result returned.
CompanyIsolationWitness ==
    /\ aPc = "returned" /\ Len(trace) = MaxCompanies
    /\ trace[1].outcome = "error"
    /\ trace[MaxCompanies].outcome = "emitted"
    /\ Len(Result.stocks) = 1

\* C9: a company whose classification failed or returned no result, or whose
\* summarization returned no result, has no StockMention, and its drop is in
\* the log under its ticker.
DropsAreLogged ==
    \A i \in DOMAIN trace :
       (trace[i].sent \in {"raise", "empty"} \/ trace[i].sum = "empty") =>
          /\ trace[i].stock = <<>>
          /\ \E e \in log : e[1] \in {"warning", "error"} /\ e[3] = registry[i].ticker

\* C10: for a company whose context block has SHORT_TEXT characters or more
\* and whose context summarization raised, the explanation is the raw context
\* block, the classifier has been called on it, and if the classifier gave a
\* result the company is in stocks with that explanation.
FallbackOnSummaryFailure ==
    \A i \in DOMAIN trace :
       (trace[i].blockLen >= SHORT_TEXT /\ trace[i].sum = "raise") =>
          /\ trace[i].explanation = RawBlock(Mentions(text, registry[i]))
          /\ trace[i].sent # "none"
          /\ trace[i].sent = "ok" =>
                \E k \in DOMAIN stocks :
                   /\ stocks[k].stock_name = registry[i].ticker
                   /\ stocks[k].explanation = RawBlock(trace[i].mentions)

\* C10 witness: a context block of exactly SHORT_TEXT characters, a
\* summarizer that raised and a classifier that answered: the mention is in
\* the result with the raw block as its explanation.
FallbackWitness ==
    /\ aPc = "returned"
    /\ \E i \in DOMAIN trace :
         /\ trace[i].blockLen = SHORT_TEXT /\ trace[i].sum = "raise"
         /\ trace[i].sent = "ok"
         /\ \E k \in DOMAIN stocks : stocks[k].explanation.kind = "raw"
                                     /\ stocks[k].stock_name = trace[i].ticker
    /\ Logged("warning", "analyze:context-summary", "xyz")

(***************************************************************************)
(* C11: the order and the members of the stocks list                       *)
(***************************************************************************)
\* Company i of the registry produced a mention record: a sentence matched,
\* the explanation is not empty and the classifier gave a result.
ProducesMention(i) ==
    /\ trace[i].mentions # <<>>
    /\ trace[i].explanation.kind # "empty"
    /\ trace[i].sent = "ok"

\* The tickers of the companies 1..n that produced a mention record, in the
\* order of the registry.
RECURSIVE MentionTickers(_)
MentionTickers(n) ==
    IF n = 0 THEN <<>>
    ELSE MentionTickers(n - 1)
         \o (IF ProducesMention(n) THEN <<registry[n].ticker>> ELSE <<>>)

\* C11: the stocks list is, in registry order, the companies that produced a
\* mention record (a matching sentence, a non-empty explanation and a
\* classifier result), one record for each; a company no sentence matches has
\* no record, and a call that runs the loop to its end has visited every
\* company once.
StocksInRegistryOrder ==
    /\ Len(trace) <= Len(registry)
    /\ [k \in 1..Len(stocks) |-> stocks[k].stock_name] = MentionTickers(Len(trace))
    /\ \A i \in DOMAIN trace :
         /\ trace[i].ticker = registry[i].ticker
         /\ ~registry[i].blob => trace[i].mentions = Mentions(text, registry[i])
         /\ trace[i].mentions = <<>> => trace[i].stock = <<>>
         /\ Len(trace[i].stock) <= 1
    /\ (aPc = "returned" /\ ~IsBlank(text) /\ ~calls.regFailed)
         => Len(trace) = Len(registry)

\* C11 witness: both companies of a registry produced a record, and the list
\* returned holds them in the order of the registry.
StocksInRegistryOrderWitness ==
    /\ aPc = "returned"
    /\ Len(registry) = 2
    /\ registry[1].ticker = "qq" /\ registry[2].ticker = "xyz"
    /\ Len(stocks) = 2
    /\ stocks[1].stock_name = "qq" /\ stocks[2].stock_name = "xyz"

(***************************************************************************)
(* C12: the persisted label depends on the summary only                    *)
(***************************************************************************)
\* The saves two rows come from had the same summary and the same classifier
\* result.
SameSummaryInputs(p, q) ==
    /\ p.analysis.summary = q.analysis.summary
    /\ p.env.sentiment = q.env.sentiment

\* C12, as the code has it: the persisted label is the classifier's label for
\* the summary in upper case when the summary is non-empty and the classifier
\* gives a result, and "NEUTRAL" when the summary is empty or the classifier
\* raises or returns nothing; two saves with the same summary and the same
\* classifier result persist the same label whatever their stocks are.
SentimentFromSummaryOnly ==
    /\ \A v \in VideoIds : lastSave[v] # <<>> =>
          LET p == lastSave[v][1] IN
          \A r \in RowsOf(v) :
             r.sentiment = IF p.analysis.summary # "" /\ p.env.sentiment.kind = "ok"
                           THEN Upper(p.env.sentiment.label)
                           ELSE "NEUTRAL"
    /\ \A v, w \in VideoIds :
          (lastSave[v] # <<>> /\ lastSave[w] # <<>>
           /\ SameSummaryInputs(lastSave[v][1], lastSave[w][1]))
          => \A r \in RowsOf(v), q \in RowsOf(w) : r.sentiment = q.sentiment

\* C12 as stated: the persisted label is the label the classifier gave.
SentimentIsClassifierLabel ==
    \A v \in VideoIds : lastSave[v] # <<>> =>
       LET p == lastSave[v][1] IN
       \A r \in RowsOf(v) :
          r.sentiment = IF p.analysis.summary # "" /\ p.env.sentiment.kind = "ok"
                        THEN p.env.sentiment.label
                        ELSE "NEUTRAL"

\* C12 witness: two videos saved with the same summary and the same classifier
\* result, one with two stocks and one with none, hold the same label.
SentimentFromSummaryWitness ==
    /\ lastSave[1] # <<>> /\ lastSave[2] # <<>>
    /\ SameSummaryInputs(lastSave[1][1], lastSave[2][1])
    /\ lastSave[1][1].analysis.summary = "S1"
    /\ Len(lastSave[1][1].analysis.stocks) = 2
    /\ lastSave[2][1].analysis.stocks = <<>>
    /\ \E r \in RowsOf(1), q \in RowsOf(2) :
         /\ r.sentiment = "POSITIVE" /\ q.sentiment = "POSITIVE"
         /\ r.tickers # q.tickers

(***************************************************************************)
(* C13, C14, C15: the run and the life of a task                           *)
(***************************************************************************)
NoDatabaseEntry == <<"error", "run:no-database", 0>>

\* C13: when the store is missing at start-up, process_all logs the diagnostic
\* and ends without raising: the video list is not fetched, no task is
\* dispatched, no row is written, no cleanup pass runs and nothing else is
\* logged; and a run ends that way only with the diagnostic logged.
FatalRunOnMissingStore ==
    /\ runPc = "aborted" => NoDatabaseEntry \in log
    /\ NoDatabaseEntry \in log =>
          /\ runPc = "aborted"
          /\ numVideos = 0
          /\ task = <<>>
          /\ table = {}
          /\ cleanups = 0
          /\ log = {NoDatabaseEntry}

\* C13 witness: a run ended by the missing store.
FatalRunWitness == runPc = "aborted" /\ NoDatabaseEntry \in log /\ task = <<>>

\* The steps of a task: the chain from Pending to Done, Skipped from the entry
\* or from the download, Failed from an active state.
TaskSteps ==
    { <<"Pending", "Downloading">>, <<"Downloading", "Analyzing">>,
      <<"Analyzing", "Saving">>, <<"Saving", "Done">>,
      <<"Pending", "Skipped">>, <<"Downloading", "Skipped">> }
    \cup { <<st, "Failed">> : st \in Active }

\* C14: a task starts Pending and changes state only by a step of TaskSteps,
\* so Done, Skipped and Failed are never left and Saving is entered from
\* Analyzing only; a row is written only by the step that takes a task from
\* Saving to Done.
TaskLifecycle ==
    [][ /\ Len(task') >= Len(task)
        /\ \A i \in Tasks : task'[i] = task[i] \/ <<task[i], task'[i]>> \in TaskSteps
        /\ \A i \in (Len(task) + 1)..Len(task') : task'[i] = "Pending"
        /\ table' # table =>
              \E i \in Tasks : task[i] = "Saving" /\ task'[i] = "Done" ]_vars

\* C14 witness: tasks of one run have ended Done, Skipped and Failed, one of
\* them skipped at the entry, while another is saving.
TaskLifecycleWitness ==
    /\ \E i \in Tasks : task[i] = "Done"
    /\ \E i \in Tasks : task[i] = "Skipped"
    /\ \E i \in Tasks : task[i] = "Failed"
    /\ \E i \in Tasks : task[i] = "Saving"
    /\ Cardinality({e \in log : e[2] = "task:skipped"}) >= 2

\* The run has ended with every video dispatched once and every task in a
\* terminal state.
RunTerminated ==
    /\ runPc = "done"
    /\ cleanups = 1
    /\ Submitted = numVideos
    /\ AllTerminal

\* C15: when every collaborator call returns or raises, a run that fetched a
\* list dispatches one task for each video of it and no more, every task
\* reaches a terminal state and stays in it (none is cancelled), and the run
\* terminates.
EveryVideoRunsToItsEnd ==
    /\ [](Submitted <= numVideos)
    /\ [][\A i \in Tasks : task[i] \in Terminal => task'[i] = task[i]]_vars
    /\ (runPc = "pool") ~> RunTerminated

\* C15 witness: a run of the largest list has terminated with tasks in each of
\* the three terminal states.
EveryVideoRunsWitness ==
    /\ RunTerminated
    /\ numVideos = MaxVideos
    /\ \A st \in Terminal : \E i \in Tasks : task[i] = st

(***************************************************************************)
(* C16, C17: the main summary and the short-text bypass                    *)
(***************************************************************************)
MainSummaryFailed == <<"error", "analyze:main-summary", "">> \in log

\* What the iteration for company i leaves in the trace under given results
\* of the summarizer and the classifier.
StepEntry(i, sumRes, sentRes) ==
    LET r == CompanyStep(text, registry[i], sumRes, sentRes)
    IN  [k \in DOMAIN r \ {"log"} |-> r[k]]

\* C16: when the main summary fails, the summary returned is empty and the
\* analysis of the companies is not cut short: every company is visited, each
\* one's result is what the transcript, the company and the results of its
\* own summarizer and classifier calls give (the main summary has no part in
\* it), and stocks holds the records of the companies in order.
MainSummaryFailureKeepsStocks ==
    MainSummaryFailed =>
       /\ mainSummary = ""
       /\ aPc \in {"loop", "returned"}
       /\ aPc = "returned" => Len(trace) = Len(registry)
       /\ \A i \in DOMAIN trace :
            \E sumRes \in SummarizerResults, sentRes \in SentimentResults :
               trace[i] = StepEntry(i, sumRes, sentRes)
       /\ stocks = EmittedOf(trace)
       /\ Result = [summary |-> "", stocks |-> EmittedOf(trace)]

\* C16 witness: a call whose main summary failed has returned an empty
\* summary and a record for each of two companies.
MainSummaryFailureWitness ==
    /\ aPc = "returned"
    /\ MainSummaryFailed
    /\ Result.summary = ""
    /\ Len(registry) = 2
    /\ Len(Result.stocks) = 2

\* C17: for a company with a non-empty context block, a block shorter than
\* 100 characters is not summarized and is itself the explanation; a block of
\* 100 characters or more is handed to the summarizer. The summarizer is
\* called once for each such block, beside the call for the main summary.
ShortTextBypass ==
    /\ \A i \in DOMAIN trace :
         LET e == trace[i] IN
         (e.outcome # "error" /\ e.blockLen > 0) =>
            /\ e.blockLen = ContextLen(Mentions(text, registry[i]))
            /\ e.blockLen < 100 =>
                  e.sum = "none" /\ e.explanation = RawBlock(e.mentions)
            /\ e.blockLen >= 100 => e.sum # "none"
    /\ calls # <<>> =>
         calls.summarizer - Cardinality({i \in DOMAIN trace : trace[i].blockLen >= 100})
            \in {0, 1}

\* C17 witness: a company whose context block has 99 characters got a record
\* with the block as explanation, and the summarizer was called for the main
\* summary only.
ShortTextBypassWitness ==
    /\ aPc = "returned"
    /\ calls.summarizer = 1
    /\ \E i \in DOMAIN trace :
         /\ trace[i].blockLen = 99
         /\ trace[i].sum = "none"
         /\ trace[i].outcome = "emitted"
         /\ stocks[1].explanation = RawBlock(trace[i].mentions)

(***************************************************************************)
(* SpecScore: the sentiment of one mention (C18)                           *)
(***************************************************************************)
\* The labels of the classifier, and two it is not known to give.
ScoreLabels == {"Positive", "Negative", "Neutral", "positive", "LABEL_1"}

\* Confidences in [0, 1], in 1/100000ths: the ends, values next to them, and
\* values under, at and over the middle between two 4-decimal numbers.
Scores == {0, 4, 5, 6, 15, 50000, 50004, 50005, 89995, 90000, 99994, 99995, 100000}

\* The dictionaries scored: with both keys, or with one of them missing.
ClassifierResults ==
    { [label |-> l, score |-> c] : l \in ScoreLabels, c \in Scores }
    \cup { [label |-> l] : l \in ScoreLabels }
    \cup { [score |-> c] : c \in Scores }

\* analyze_text, lines 87-90: round(numerical_sentiment, 4) of
\* _get_numerical_sentiment(sentiment_list[0]).
ScoreMention ==
    /\ scoreOut = <<>>
    /\ \E out \in Round4Set(GetNumericalSentiment(scoreIn)) : scoreOut' = <<out>>
    /\ UNCHANGED <<scoreIn, downloadDir, files, captured, cleanPc>>
    /\ UNCHANGED pipeVars
    /\ UNCHANGED anaVars
    /\ UNCHANGED <<log, table, lastSave>>

InitScore ==
    /\ runPc = "idle" /\ numVideos = 0 /\ task = <<>> /\ cleanups = 0
    /\ log = {} /\ table = {} /\ lastSave = <<>>
    /\ AnaIdle
    /\ scoreIn \in ClassifierResults
    /\ scoreOut = <<>>
    /\ FilesIdle

NextScore == ScoreMention

SpecScore == InitScore /\ [][NextScore]_vars

Abs(x) == IF x < 0 THEN -x ELSE x

\* C18: for a result with label L and confidence c in [0, 1] the sentiment is
\* c for Positive, -c for Negative and 0 for any other label, to within the
\* rounding to 4 decimals (half of 1/10000) and never of the opposite sign;
\* every sentiment is a 4-decimal number of [-1, 1].
SentimentKeepsSignAndMagnitude ==
    scoreOut # <<>> =>
       LET s == scoreOut[1] IN
       /\ s % 10 = 0
       /\ -100000 <= s /\ s <= 100000
       /\ DOMAIN scoreIn = {"label", "score"} =>
             CASE scoreIn.label = "Positive" -> s >= 0 /\ Abs(s - scoreIn.score) <= 5
               [] scoreIn.label = "Negative" -> s <= 0 /\ Abs(s + scoreIn.score) <= 5
               [] OTHER -> s = 0

\* C18 witness: a Negative result of confidence 0.50004 was scored -0.5.
SentimentWitness ==
    /\ DOMAIN scoreIn = {"label", "score"}
    /\ scoreIn.label = "Negative" /\ scoreIn.score = 50004
    /\ scoreOut = <<-50000>>

(***************************************************************************)
(* C19: a failed save                                                      *)
(***************************************************************************)
\* The log entries of a save that failed: a storage error, or any other
\* error (the publish date that does not parse).
SaveFailures == {"save:database", "save:unexpected"}

\* C19: a save_analysis_to_db call that fails, on a storage error or on a
\* publish date that does not parse, returns with the error logged and the
\* table as it was: no row is added and the row the video had keeps every
\* field.
FailedSaveLeavesStore ==
    [][(\E e \in log' : e[2] \in SaveFailures) => table' = table]_vars

\* C19 witness: video 1 has the row of an earlier save, and the last call, for
\* video 1 with a date that does not parse, has failed.
FailedSaveWitness ==
    /\ lastSave[1] # <<>>
    /\ <<"error", "save:unexpected", 1>> \in log
    /\ \E r \in RowsOf(1) :
         /\ r.summary = lastSave[1][1].analysis.summary
         /\ r.publish_date = <<2023, "-", 12, "-", 5>>

(***************************************************************************)
(* SpecCleanup: the files of a run (C20)                                   *)
(***************************************************************************)
\* The working directory of the process, which a relative glob pattern is
\* resolved against.
WorkDir == "."

\* DOWNLOAD_DIR: "downloads" unless the environment names another directory,
\* here the working directory itself.
DownloadDirs == {"downloads", WorkDir}

\* patterns_to_delete, by extension.
MediaExts == {"vtt", "mp4", "m4a", "webm"}

\* The subtitle tracks --sub-langs "en.*" selects: "en" and its variants.
SubLangs == {"en", "en-US", "en-orig"}

\* <download_dir>/<video_id>.<lang>.vtt
SubtitleFile(dir, v, lang) == [dir |-> dir, stem |-> <<v, lang>>, ext |-> "vtt"]

\* caption_file = output_template.with_suffix(".en.vtt")
CaptionFile(dir, v) == SubtitleFile(dir, v, "en")

\* Files the working directory may hold before the run.
StrayFiles ==
    { [dir |-> WorkDir, stem |-> <<0, "demo">>, ext |-> "mp4"],
      [dir |-> WorkDir, stem |-> <<0, "notes">>, ext |-> "txt"] }

\* get_captions_only(v, DOWNLOAD_DIR): yt-dlp writes the subtitle tracks it
\* finds (and may then fail or time out); on every path the file
\* <video_id>.en.vtt is unlinked if it exists, and no other.
GetCaptionsOnly(v) ==
    /\ cleanPc = "tasks"
    /\ v \in VideoIds \ captured
    /\ \E langs \in SUBSET SubLangs, outcome \in {"ok", "raise"} :
         /\ files' = (files \cup {SubtitleFile(downloadDir, v, l) : l \in langs})
                        \ {CaptionFile(downloadDir, v)}
         /\ log' = log \cup (IF outcome = "raise"
                              THEN {<<"error", "captions:failed", v>>} ELSE {})
    /\ captured' = captured \cup {v}
    /\ UNCHANGED <<downloadDir, cleanPc, scoreIn, scoreOut>>
    /\ UNCHANGED pipeVars
    /\ UNCHANGED anaVars
    /\ UNCHANGED <<table, lastSave>>

\* glob.glob(pattern) for the patterns of patterns_to_delete: the patterns
\* are relative, so they match in the working directory.
GlobMatches == {f \in files : f.dir = WorkDir /\ f.ext \in MediaExts}

\* cleanup_media_files: os.remove of every file matched; an OSError is logged
\* and the file stays.
CleanupMediaFiles ==
    /\ cleanPc = "tasks"
    /\ \E failed \in SUBSET GlobMatches :
         /\ files' = files \ (GlobMatches \ failed)
         /\ log' = log \cup (IF failed = {} THEN {}
                              ELSE {<<"error", "cleanup:delete", 0>>})
    /\ cleanPc' = "cleaned"
    /\ UNCHANGED <<downloadDir, captured, scoreIn, scoreOut>>
    /\ UNCHANGED pipeVars
    /\ UNCHANGED anaVars
    /\ UNCHANGED <<table, lastSave>>

InitCleanup ==
    /\ runPc = "idle" /\ numVideos = 0 /\ task = <<>> /\ cleanups = 0
    /\ log = {} /\ table = {} /\ lastSave = <<>>
    /\ AnaIdle
    /\ scoreIn = <<>> /\ scoreOut = <<>>
    /\ downloadDir \in DownloadDirs
    /\ files \in SUBSET StrayFiles
    /\ captured = {}
    /\ cleanPc = "tasks"

NextCleanup ==
    \/ \E v \in VideoIds : GetCaptionsOnly(v)
    \/ CleanupMediaFiles

SpecCleanup == InitCleanup /\ [][NextCleanup]_vars

\* C20: once the cleanup pass has returned with no deletion error, no file
\* matching *.vtt, *.mp4, *.m4a or *.webm is left in the download directory.
NoLeftoverAfterCleanup ==
    (cleanPc = "cleaned" /\ <<"error", "cleanup:delete", 0>> \notin log)
    => ~\E f \in files : f.dir = downloadDir /\ f.ext \in MediaExts

====
